---------------------------- MODULE Spec2Model ----------------------------
(***************************************************************************)
(* The wallet dashboard of src/src/App.tsx (the App component, lines       *)
(* 80-724) as a state machine.  The React state of the component is the    *)
(* state; every handler of the component is an action; every awaited       *)
(* adapter call is split in the step that starts it and the step that      *)
(* settles it, with the values its closure captured kept in between.       *)
(***************************************************************************)
EXTENDS Integers, Sequences, FiniteSets, TLC

VARIABLES
    isConnected,                \* useState(false), line 81
    connectedAddress,           \* useState(''), line 82
    octraSDK,                   \* useState(null), line 83: "null" or "sdk"
    isLoading,                  \* useState(false), line 84
    selectedMethod,             \* useState(null), line 85
    methodParams,               \* useState({}), line 86
    lastResult,                 \* useState(null), line 87
    currentContractInterface,   \* useState(contractInterface), line 88
    isUsingCustomInterface,     \* useState(false), line 89
    windowOctraSDK,             \* window.OctraSDK is defined (the extension is installed)
    sdkProvider,                \* sdk.provider is defined
    sdkConnectedAddress,        \* the session the SDK restored: '' when none
    mounted,                    \* the component is mounted: FALSE after the effect's cleanup
    initPc,                     \* position of initSDK: "awaitAvailable", "done"
    registered,                 \* the three handlers are registered with sdk.provider
    pendingConnect,             \* number of octraSDK.connect() calls not yet settled
    pendingDisconnect,          \* number of octraSDK.disconnect() calls not yet settled
    pendingExec,                \* the executeMethod closures awaiting viewCall / callContract
    pendingReads,               \* number of FileReader reads not yet delivered
    toasts,                     \* titles of the toasts the last step emitted
    calls,                      \* adapter calls the last step made
    last                        \* the last step: its name and what it started from

vars == << isConnected, connectedAddress, octraSDK, isLoading, selectedMethod,
           methodParams, lastResult, currentContractInterface,
           isUsingCustomInterface, windowOctraSDK, sdkProvider,
           sdkConnectedAddress, mounted, initPc, registered, pendingConnect,
           pendingDisconnect, pendingExec, pendingReads, toasts, calls, last >>

uiVars == << isConnected, connectedAddress, octraSDK, isLoading, selectedMethod,
             methodParams, lastResult, currentContractInterface,
             isUsingCustomInterface >>

\* what no handler writes: the host environment and the mount itself
envVars == << windowOctraSDK, sdkProvider, sdkConnectedAddress, mounted >>

-----------------------------------------------------------------------------
(* Bounds of the model. *)

MaxPendingExec == 2
MaxPendingConnect == 2
MaxPendingDisconnect == 1
MaxPendingReads == 2

-----------------------------------------------------------------------------
(* Values. *)

Null == [tag |-> "null"]

EmptyParams == [n \in {} |-> ""]

Addresses == {"oct1xyz789", "oct1abc123"}

EditValues == {"", "7"}

Param(n, t, has, ex) == [name |-> n, type |-> t, hasExample |-> has, example |-> ex]

Method(n, t, l, ps) == [name |-> n, type |-> t, label |-> l, params |-> ps]

GetCredits == Method("getCredits", "view", "Get Credits",
                     << Param("address", "string", FALSE, "") >>)

Transfer == Method("transfer", "call", "Transfer",
                   << Param("to", "string", TRUE, "oct1abc123"),
                      Param("amount", "number", FALSE, "") >>)

GetCreditsOf == Method("getCredits", "query", "Credits Of",
                       << Param("account", "string", TRUE, "oct1abc123") >>)


-----------------------------------------------------------------------------
(* Values of a parsed JSON document, as far as handleFileUpload looks at    *)
(* them: a value is undefined, a string or a number.                        *)

JUndefined == [t |-> "undefined", v |-> ""]

JStr(s) == [t |-> "string", v |-> s]

JNum(s) == [t |-> "number", v |-> s]

\* JavaScript truthiness of a JSON value, as `!newInterface.contract` tests it
Truthy(j) ==
    \/ j.t = "string" /\ j.v # ""
    \/ j.t = "number" /\ j.v # "0"

contractInterface ==
    [contract |-> JStr("oct1abc"), methods |-> << GetCredits >>]

InterfaceA ==
    [contract |-> JStr("oct1contractA"), methods |-> << GetCredits, Transfer >>]

InterfaceB ==
    [contract |-> JStr("oct1contractB"), methods |-> << GetCreditsOf >>]

\* What FileReader delivers: text that JSON.parse rejects, or a parsed object
Payload(ok, c, arr, ms) ==
    [parses |-> ok, contract |-> c, methodsIsArray |-> arr, methods |-> ms]

PayloadNotJson == Payload(FALSE, JUndefined, FALSE, << >>)

PayloadNoContract == Payload(TRUE, JUndefined, TRUE, << GetCredits >>)

PayloadEmptyContract == Payload(TRUE, JStr(""), TRUE, << GetCredits >>)

PayloadNoMethods == Payload(TRUE, JStr("oct1contractA"), FALSE, << >>)

PayloadNumberContract == Payload(TRUE, JNum("5"), TRUE, << GetCredits >>)

PayloadA == Payload(TRUE, InterfaceA.contract, TRUE, InterfaceA.methods)

PayloadB == Payload(TRUE, InterfaceB.contract, TRUE, InterfaceB.methods)

Payloads ==
    { PayloadNotJson, PayloadNoContract, PayloadEmptyContract, PayloadNoMethods,
      PayloadNumberContract, PayloadA, PayloadB }

-----------------------------------------------------------------------------
(* Error messages, as sequences of characters so that String.includes is    *)
(* computed and not assumed.                                                *)

PatNotConnected == << "n", "o", "t", " ", "c", "o", "n", "n", "e", "c", "t", "e", "d" >>

PatNotConnectedCap == << "N", "o", "t", " ", "c", "o", "n", "n", "e", "c", "t", "e", "d" >>

PatWallet == << "w", "a", "l", "l", "e", "t" >>

PatExtension == << "e", "x", "t", "e", "n", "s", "i", "o", "n" >>

\* "User rejected the request"
MsgUserRejected ==
    << "U", "s", "e", "r", " ", "r", "e", "j", "e", "c", "t", "e", "d", " ", "t", "h", "e", " ", "r", "e", "q", "u", "e", "s", "t" >>

\* "wallet locked"
MsgWalletLocked ==
    << "w", "a", "l", "l", "e", "t", " ", "l", "o", "c", "k", "e", "d" >>

\* "Wallet locked"
MsgWalletLockedCap ==
    << "W", "a", "l", "l", "e", "t", " ", "l", "o", "c", "k", "e", "d" >>

\* "EXTENSION unavailable"
MsgExtensionCaps ==
    << "E", "X", "T", "E", "N", "S", "I", "O", "N", " ", "u", "n", "a", "v", "a", "i", "l", "a", "b", "l", "e" >>

\* "extension gone"
MsgExtensionGone ==
    << "e", "x", "t", "e", "n", "s", "i", "o", "n", " ", "g", "o", "n", "e" >>

\* "Not connected"
MsgNotConnectedCap ==
    << "N", "o", "t", " ", "c", "o", "n", "n", "e", "c", "t", "e", "d" >>

\* "NOT CONNECTED"
MsgNotConnectedCaps ==
    << "N", "O", "T", " ", "C", "O", "N", "N", "E", "C", "T", "E", "D" >>

\* "not connected to node"
MsgNotConnectedLow ==
    << "n", "o", "t", " ", "c", "o", "n", "n", "e", "c", "t", "e", "d", " ", "t", "o", " ", "n", "o", "d", "e" >>

Messages ==
    { MsgUserRejected, MsgWalletLocked, MsgWalletLockedCap, MsgExtensionCaps,
      MsgExtensionGone, MsgNotConnectedCap, MsgNotConnectedCaps, MsgNotConnectedLow }

NoMessage == << >>

\* String.prototype.includes
Includes(msg, pat) ==
    \E i \in 1..(Len(msg) - Len(pat) + 1) : SubSeq(msg, i, i + Len(pat) - 1) = pat

\* a catch block that takes every failure for a disconnection
IsConnectivityError_Always(msg) == TRUE

\* the condition of the catch block of executeMethod
IsConnectivityError(msg) ==
    \/ Includes(msg, PatNotConnected)
    \/ Includes(msg, PatNotConnectedCap)
    \/ Includes(msg, PatWallet)
    \/ Includes(msg, PatExtension)

-----------------------------------------------------------------------------
(* Helpers shared by the handlers. *)

\* what the last step was: history for the properties, read by no handler.
\* flag and input depend on the step: see each handler
Step(op, flag, msg, input) ==
    [op |-> op, wasConnected |-> isConnected, flag |-> flag, msg |-> msg,
     input |-> input]

ParamNames(method) == { method.params[i].name : i \in DOMAIN method.params }

\* an initialisation that forgets the example
ExampleOrEmpty_Dropped(param) == ""

\* `param.example || ''`
ExampleOrEmpty(param) ==
    IF param.hasExample /\ param.example # "" THEN param.example ELSE ""

\* the initialParams object built by handleMethodSelect: forEach assigns in
\* order, so the last parameter of a name decides its entry
InitialParams(method) ==
    [n \in ParamNames(method) |->
        LET k == CHOOSE i \in DOMAIN method.params :
                     /\ method.params[i].name = n
                     /\ \A j \in DOMAIN method.params :
                            method.params[j].name = n => j <= i
        IN  ExampleOrEmpty(method.params[k])]

\* an update that forgets `...prev`
SetParam_DropsPrev(prev, name, value) == [n \in { name } |-> value]

\* `{...prev, [name]: value}`
SetParam(prev, name, value) ==
    [n \in (DOMAIN prev) \cup {name} |-> IF n = name THEN value ELSE prev[n]]

\* a payload that ignores the form
ValueOrEmpty_Blank(name) == ""

\* `methodParams[param.name] || ''`
ValueOrEmpty(name) ==
    IF name \in DOMAIN methodParams /\ methodParams[name] # ""
    THEN methodParams[name] ELSE ""

\* a payload built in the reverse of the declared order
CallParams_Reversed(method) ==
    [i \in DOMAIN method.params |->
        LET param == method.params[Len(method.params) + 1 - i]
        IN  [name |-> param.name,
             type |-> param.type,
             value |-> ValueOrEmpty(param.name),
             hasExample |-> param.hasExample,
             example |-> param.example]]

\* the params array executeMethod hands to the adapter
CallParams(method) ==
    [i \in DOMAIN method.params |->
        [name |-> method.params[i].name,
         type |-> method.params[i].type,
         value |-> ValueOrEmpty(method.params[i].name),
         hasExample |-> method.params[i].hasExample,
         example |-> method.params[i].example]]

\* the ghost flag `stale` of a pending execution: the wallet was disconnected
\* after the execution was started
SetStale ==
    [i \in DOMAIN pendingExec |-> [pendingExec[i] EXCEPT !.stale = TRUE]]

\* the ghost flag of a pending execution: an empty accountsChanged arrived
\* while it was pending and the wallet has not been connected again since
SetEmptied(b) ==
    [i \in DOMAIN pendingExec |-> [pendingExec[i] EXCEPT !.emptied = b]]

RemoveAt(seq, i) == SubSeq(seq, 1, i - 1) \o SubSeq(seq, i + 1, Len(seq))

\* a reset that forgets setSelectedMethod(null)
ClearSelection_KeepsMethod ==
    /\ methodParams' = EmptyParams
    /\ lastResult' = Null
    /\ UNCHANGED selectedMethod

\* the three state resets every clearing path performs
ClearSelection ==
    /\ selectedMethod' = Null
    /\ methodParams' = EmptyParams
    /\ lastResult' = Null

-----------------------------------------------------------------------------
(* Initialisation: the state after the first render and the synchronous     *)
(* prefix of initSDK, up to `await sdk.isAvailable()`.                      *)

Init ==
    /\ isConnected = FALSE
    /\ connectedAddress = ""
    /\ isLoading = FALSE
    /\ selectedMethod = Null
    /\ methodParams = EmptyParams
    /\ lastResult = Null
    /\ currentContractInterface = contractInterface
    /\ isUsingCustomInterface = FALSE
    /\ windowOctraSDK \in BOOLEAN
    /\ sdkProvider \in (IF windowOctraSDK THEN BOOLEAN ELSE {FALSE})
    /\ sdkConnectedAddress \in (IF windowOctraSDK THEN {""} \cup Addresses ELSE {""})
    /\ octraSDK = (IF windowOctraSDK THEN "sdk" ELSE "null")
    /\ mounted = TRUE
    /\ initPc = (IF windowOctraSDK THEN "awaitAvailable" ELSE "done")
    /\ registered = FALSE
    /\ pendingConnect = 0
    /\ pendingDisconnect = 0
    /\ pendingExec = << >>
    /\ pendingReads = 0
    /\ toasts = << >>
    /\ calls = << >>
    /\ last = [op |-> "mount", wasConnected |-> FALSE, flag |-> FALSE,
               msg |-> NoMessage, input |-> Null]

\* initSDK after `await sdk.isAvailable()`: the promise resolved to
\* isAvailable, or rejected (the catch of line 176 only logs).  The
\* continuation runs whether or not the component is still mounted; the state
\* setters of an unmounted component have no effect.
initSDK(isAvailable, rejected) ==
    /\ initPc = "awaitAvailable"
    /\ initPc' = "done"
    /\ registered' = (registered \/ (~rejected /\ isAvailable /\ sdkProvider))
    /\ IF ~rejected /\ isAvailable /\ sdkConnectedAddress # ""
       THEN /\ isConnected' = mounted
            /\ connectedAddress' = IF mounted THEN sdkConnectedAddress ELSE ""
            /\ toasts' = << "Wallet Connected" >>
       ELSE /\ UNCHANGED << isConnected, connectedAddress >>
            /\ toasts' = << >>
    /\ pendingExec' = IF isConnected' THEN SetEmptied(FALSE) ELSE pendingExec
    /\ calls' = << >>
    /\ last' = Step("initSDK", ~rejected /\ isAvailable, NoMessage, Null)
    /\ UNCHANGED << octraSDK, isLoading, selectedMethod, methodParams, lastResult,
                    currentContractInterface, isUsingCustomInterface, envVars,
                    pendingConnect, pendingDisconnect, pendingReads >>

-----------------------------------------------------------------------------
(* Teardown: the cleanup function of the effect.  It removes the handlers   *)
(* when `sdk && sdk.provider && sdk._eventHandlers`; _eventHandlers is set   *)
(* together with the registration, so that is when `registered` holds.  The *)
(* state of the component goes with the component, and the continuations of *)
(* its pending calls have nothing left to write to.                         *)

Teardown ==
    /\ mounted
    /\ mounted' = FALSE
    /\ registered' = IF windowOctraSDK /\ sdkProvider /\ registered
                     THEN FALSE ELSE registered
    /\ isConnected' = FALSE
    /\ connectedAddress' = ""
    /\ isLoading' = FALSE
    /\ ClearSelection
    /\ currentContractInterface' = contractInterface
    /\ isUsingCustomInterface' = FALSE
    /\ pendingConnect' = 0
    /\ pendingDisconnect' = 0
    /\ pendingExec' = << >>
    /\ pendingReads' = 0
    /\ toasts' = << >>
    /\ calls' = << >>
    /\ last' = Step("teardown", FALSE, NoMessage, Null)
    /\ UNCHANGED << octraSDK, windowOctraSDK, sdkProvider, sdkConnectedAddress,
                    initPc >>

\* a handler that is still registered after the teardown is called by the
\* provider: its state setters have no effect, its toast is shown
LeakedHandlerToasts ==
    { << "Wallet Connected" >>, << "Wallet Disconnected" >>, << "Account Changed" >>,
      << >> }

LeakedHandlerRuns ==
    /\ ~mounted
    /\ registered
    /\ toasts' \in LeakedHandlerToasts
    /\ calls' = << >>
    /\ last' = Step("leakedHandler", FALSE, NoMessage, Null)
    /\ UNCHANGED << uiVars, envVars, initPc, registered, pendingConnect,
                    pendingDisconnect, pendingExec, pendingReads >>

-----------------------------------------------------------------------------
(* Provider events: they arrive whenever the handlers are registered. *)

\* a connect handler that forgets setConnectedAddress
handleConnect_NoAddress(address) ==
    /\ registered
    /\ isConnected' = TRUE
    /\ UNCHANGED connectedAddress
    /\ pendingExec' = SetEmptied(FALSE)
    /\ toasts' = << "Wallet Connected" >>
    /\ calls' = << >>
    /\ last' = Step("handleConnect", FALSE, NoMessage, Null)
    /\ UNCHANGED << octraSDK, isLoading, selectedMethod, methodParams, lastResult,
                    currentContractInterface, isUsingCustomInterface, envVars,
                    initPc, registered, pendingConnect, pendingDisconnect,
                    pendingReads >>

handleConnect(address) ==
    /\ registered
    /\ isConnected' = TRUE
    /\ connectedAddress' = address
    /\ pendingExec' = SetEmptied(FALSE)
    /\ toasts' = << "Wallet Connected" >>
    /\ calls' = << >>
    /\ last' = Step("handleConnect", FALSE, NoMessage, Null)
    /\ UNCHANGED << octraSDK, isLoading, selectedMethod, methodParams, lastResult,
                    currentContractInterface, isUsingCustomInterface, envVars,
                    initPc, registered, pendingConnect, pendingDisconnect,
                    pendingReads >>

\* a disconnect handler that calls setIsConnected(true)
handleDisconnect_Connects ==
    /\ registered
    /\ isConnected' = TRUE
    /\ connectedAddress' = ""
    /\ ClearSelection
    /\ toasts' = << "Wallet Disconnected" >>
    /\ calls' = << >>
    /\ last' = Step("handleDisconnect", FALSE, NoMessage, Null)
    /\ UNCHANGED << octraSDK, isLoading, currentContractInterface,
                    isUsingCustomInterface, envVars, initPc, registered,
                    pendingConnect, pendingDisconnect, pendingExec, pendingReads >>

handleDisconnect ==
    /\ registered
    /\ isConnected' = FALSE
    /\ connectedAddress' = ""
    /\ ClearSelection
    /\ toasts' = << "Wallet Disconnected" >>
    /\ calls' = << >>
    /\ pendingExec' = SetStale
    /\ last' = Step("handleDisconnect", FALSE, NoMessage, Null)
    /\ UNCHANGED << octraSDK, isLoading, currentContractInterface,
                    isUsingCustomInterface, envVars, initPc, registered,
                    pendingConnect, pendingDisconnect, pendingReads >>

AccountLists ==
    { << >>, << "oct1xyz789" >>, << "oct1abc123", "oct1xyz789" >> }

\* a handler that takes the last account of the list
handleAccountsChanged_LastAccount(accounts) ==
    /\ registered
    /\ IF Len(accounts) > 0
       THEN /\ connectedAddress' = accounts[Len(accounts)]
            /\ isConnected' = TRUE
            /\ pendingExec' = SetEmptied(FALSE)
            /\ toasts' = << "Account Changed" >>
            /\ UNCHANGED << selectedMethod, methodParams, lastResult >>
       ELSE /\ connectedAddress' = ""
            /\ isConnected' = FALSE
            /\ ClearSelection
            /\ pendingExec' =
                   [i \in DOMAIN pendingExec |->
                       [pendingExec[i] EXCEPT !.emptied = TRUE, !.stale = TRUE]]
            /\ toasts' = << >>
    /\ calls' = << >>
    /\ last' = Step("handleAccountsChanged", Len(accounts) > 0, NoMessage,
                 [accounts |-> accounts])
    /\ UNCHANGED << octraSDK, isLoading, currentContractInterface,
                    isUsingCustomInterface, envVars, initPc, registered,
                    pendingConnect, pendingDisconnect, pendingReads >>

handleAccountsChanged(accounts) ==
    /\ registered
    /\ IF Len(accounts) > 0
       THEN /\ connectedAddress' = accounts[1]
            /\ isConnected' = TRUE
            /\ pendingExec' = SetEmptied(FALSE)
            /\ toasts' = << "Account Changed" >>
            /\ UNCHANGED << selectedMethod, methodParams, lastResult >>
       ELSE /\ connectedAddress' = ""
            /\ isConnected' = FALSE
            /\ ClearSelection
            /\ pendingExec' =
                   [i \in DOMAIN pendingExec |->
                       [pendingExec[i] EXCEPT !.emptied = TRUE, !.stale = TRUE]]
            /\ toasts' = << >>
    /\ calls' = << >>
    /\ last' = Step("handleAccountsChanged", Len(accounts) > 0, NoMessage,
                 [accounts |-> accounts])
    /\ UNCHANGED << octraSDK, isLoading, currentContractInterface,
                    isUsingCustomInterface, envVars, initPc, registered,
                    pendingConnect, pendingDisconnect, pendingReads >>

-----------------------------------------------------------------------------
(* What the render shows: a handler bound to a control can be invoked by    *)
(* the user only while that control is rendered and enabled.                *)

\* Connect Wallet buttons that are not disabled while a call is pending
ConnectButton_IgnoresLoading == mounted /\ ~isConnected

\* the two Connect Wallet buttons: `!isConnected`, `disabled={isLoading}`
ConnectButton == mounted /\ ~isConnected /\ ~isLoading

\* the Disconnect Wallet menu item: inside `isConnected ? (`
DisconnectItem == mounted /\ isConnected

\* the Reset button: `isUsingCustomInterface && (`
ResetButton == mounted /\ isUsingCustomInterface

\* the Load Interface file input: connected and no custom interface
LoadInput == mounted /\ isConnected /\ ~isUsingCustomInterface

\* the method list and the execution card: connected with a custom interface
MethodsPanel == mounted /\ isConnected /\ isUsingCustomInterface

\* an Execute button that is not disabled while a call is pending
ExecuteButton_IgnoresLoading == MethodsPanel /\ selectedMethod # Null

\* the Execute button: `selectedMethod ? (`, `disabled={isLoading}`
ExecuteButton == MethodsPanel /\ selectedMethod # Null /\ ~isLoading

\* the Use My Address button
UseMyAddressButton ==
    /\ MethodsPanel
    /\ selectedMethod # Null
    /\ Len(selectedMethod.params) > 0
    /\ selectedMethod.name = "getCredits"

-----------------------------------------------------------------------------
(* Connecting and disconnecting. *)

\* a connectWallet without the `if (!octraSDK)` guard
connectWallet_NoSdkCheck ==
    /\ pendingConnect < MaxPendingConnect
    /\ isLoading' = TRUE
    /\ pendingConnect' = pendingConnect + 1
    /\ calls' = << [fn |-> "connect", appName |-> "OCS01-TEST"] >>
    /\ toasts' = << >>
    /\ last' = Step("connectWallet", FALSE, NoMessage, Null)
    /\ UNCHANGED << isConnected, connectedAddress, octraSDK, selectedMethod,
                    methodParams, lastResult, currentContractInterface,
                    isUsingCustomInterface, envVars, initPc, registered,
                    pendingDisconnect, pendingExec, pendingReads >>

connectWallet ==
    /\ IF octraSDK = "null"
       THEN /\ toasts' = << "SDK Not Available" >>
            /\ calls' = << >>
            /\ UNCHANGED << isLoading, pendingConnect >>
       ELSE /\ pendingConnect < MaxPendingConnect
            /\ isLoading' = TRUE
            /\ pendingConnect' = pendingConnect + 1
            /\ calls' = << [fn |-> "connect", appName |-> "OCS01-TEST"] >>
            /\ toasts' = << >>
    /\ last' = Step("connectWallet", FALSE, NoMessage, Null)
    /\ UNCHANGED << isConnected, connectedAddress, octraSDK, selectedMethod,
                    methodParams, lastResult, currentContractInterface,
                    isUsingCustomInterface, envVars, initPc, registered,
                    pendingDisconnect, pendingExec, pendingReads >>

\* a connectWallet that clears the loading flag in the success branch only
connectResolved_LoadingKeptOnFailure(success, address) ==
    /\ pendingConnect > 0
    /\ pendingConnect' = pendingConnect - 1
    /\ IF success
       THEN /\ isConnected' = TRUE
            /\ connectedAddress' = address
            /\ pendingExec' = SetEmptied(FALSE)
            /\ toasts' = << "Wallet Connected" >>
            /\ isLoading' = FALSE
       ELSE /\ UNCHANGED << isConnected, connectedAddress, pendingExec, isLoading >>
            /\ toasts' = << >>
    /\ calls' = << >>
    /\ last' = Step("connectResolved", success, NoMessage, Null)
    /\ UNCHANGED << octraSDK, selectedMethod, methodParams, lastResult,
                    currentContractInterface, isUsingCustomInterface, envVars,
                    initPc, registered, pendingDisconnect, pendingReads >>

\* `await octraSDK.connect(...)` resolved with {success, address}
connectResolved(success, address) ==
    /\ pendingConnect > 0
    /\ pendingConnect' = pendingConnect - 1
    /\ IF success
       THEN /\ isConnected' = TRUE
            /\ connectedAddress' = address
            /\ pendingExec' = SetEmptied(FALSE)
            /\ toasts' = << "Wallet Connected" >>
       ELSE /\ UNCHANGED << isConnected, connectedAddress, pendingExec >>
            /\ toasts' = << >>
    /\ isLoading' = FALSE
    /\ calls' = << >>
    /\ last' = Step("connectResolved", success, NoMessage, Null)
    /\ UNCHANGED << octraSDK, selectedMethod, methodParams, lastResult,
                    currentContractInterface, isUsingCustomInterface, envVars,
                    initPc, registered, pendingDisconnect, pendingReads >>

\* a catch block that calls connect() once more
connectRejected_Retries(msg) ==
    /\ pendingConnect > 0
    /\ pendingConnect' = pendingConnect
    /\ toasts' = << "Connection Failed" >>
    /\ isLoading' = TRUE
    /\ calls' = << [fn |-> "connect", appName |-> "OCS01-TEST"] >>
    /\ last' = Step("connectRejected", FALSE, NoMessage, Null)
    /\ UNCHANGED << isConnected, connectedAddress, octraSDK, selectedMethod,
                    methodParams, lastResult, currentContractInterface,
                    isUsingCustomInterface, envVars, initPc, registered,
                    pendingDisconnect, pendingExec, pendingReads >>

\* `await octraSDK.connect(...)` rejected: the message goes to the toast's
\* description only
connectRejected(msg) ==
    /\ pendingConnect > 0
    /\ pendingConnect' = pendingConnect - 1
    /\ toasts' = << "Connection Failed" >>
    /\ isLoading' = FALSE
    /\ calls' = << >>
    /\ last' = Step("connectRejected", FALSE, NoMessage, Null)
    /\ UNCHANGED << isConnected, connectedAddress, octraSDK, selectedMethod,
                    methodParams, lastResult, currentContractInterface,
                    isUsingCustomInterface, envVars, initPc, registered,
                    pendingDisconnect, pendingExec, pendingReads >>

disconnectWallet ==
    /\ IF octraSDK # "null"
       THEN /\ pendingDisconnect < MaxPendingDisconnect
            /\ pendingDisconnect' = pendingDisconnect + 1
            /\ calls' = << [fn |-> "disconnect"] >>
       ELSE /\ calls' = << >>
            /\ UNCHANGED pendingDisconnect
    /\ toasts' = << >>
    /\ last' = Step("disconnectWallet", FALSE, NoMessage, Null)
    /\ UNCHANGED << uiVars, envVars, initPc, registered, pendingConnect,
                    pendingExec, pendingReads >>

\* `await octraSDK.disconnect()` resolved
disconnectResolved ==
    /\ pendingDisconnect > 0
    /\ pendingDisconnect' = pendingDisconnect - 1
    /\ isConnected' = FALSE
    /\ connectedAddress' = ""
    /\ ClearSelection
    /\ toasts' = << "Wallet Disconnected" >>
    /\ calls' = << >>
    /\ pendingExec' = SetStale
    /\ last' = Step("disconnectResolved", FALSE, NoMessage, Null)
    /\ UNCHANGED << octraSDK, isLoading, currentContractInterface,
                    isUsingCustomInterface, envVars, initPc, registered,
                    pendingConnect, pendingReads >>

\* a catch block that resets the state as the success path does
disconnectRejected_Clears(msg) ==
    /\ pendingDisconnect > 0
    /\ pendingDisconnect' = pendingDisconnect - 1
    /\ isConnected' = FALSE
    /\ connectedAddress' = ""
    /\ ClearSelection
    /\ toasts' = << >>
    /\ calls' = << >>
    /\ last' = Step("disconnectRejected", FALSE, NoMessage, Null)
    /\ UNCHANGED << octraSDK, isLoading, currentContractInterface,
                    isUsingCustomInterface, envVars, initPc, registered,
                    pendingConnect, pendingExec, pendingReads >>

\* `await octraSDK.disconnect()` rejected: console.error only
disconnectRejected(msg) ==
    /\ pendingDisconnect > 0
    /\ pendingDisconnect' = pendingDisconnect - 1
    /\ toasts' = << >>
    /\ calls' = << >>
    /\ last' = Step("disconnectRejected", FALSE, NoMessage, Null)
    /\ UNCHANGED << uiVars, envVars, initPc, registered, pendingConnect,
                    pendingExec, pendingReads >>

-----------------------------------------------------------------------------
(* The method form. *)

handleMethodSelect(method) ==
    /\ selectedMethod' = method
    /\ methodParams' = InitialParams(method)
    /\ lastResult' = Null
    /\ toasts' = << >>
    /\ calls' = << >>
    /\ last' = Step("handleMethodSelect", selectedMethod # Null /\ selectedMethod # method,
                 NoMessage, method)
    /\ UNCHANGED << isConnected, connectedAddress, octraSDK, isLoading,
                    currentContractInterface, isUsingCustomInterface, envVars,
                    initPc, registered, pendingConnect, pendingDisconnect,
                    pendingExec, pendingReads >>

handleParamChange(paramName, value) ==
    /\ methodParams' = SetParam(methodParams, paramName, value)
    /\ toasts' = << >>
    /\ calls' = << >>
    /\ last' = Step("handleParamChange", FALSE, NoMessage,
                 [name |-> paramName, value |-> value])
    /\ UNCHANGED << isConnected, connectedAddress, octraSDK, isLoading,
                    selectedMethod, lastResult, currentContractInterface,
                    isUsingCustomInterface, envVars, initPc, registered,
                    pendingConnect, pendingDisconnect, pendingExec, pendingReads >>

\* a helper that does not look at the name of the selected method
useMyAddress_AnyMethod ==
    /\ IF selectedMethod # Null /\ connectedAddress # ""
       THEN /\ methodParams' = SetParam(methodParams, "address", connectedAddress)
            /\ toasts' = << "Address Set" >>
       ELSE /\ UNCHANGED methodParams
            /\ toasts' = << >>
    /\ calls' = << >>
    /\ last' = Step("useMyAddress", FALSE, NoMessage, Null)
    /\ UNCHANGED << isConnected, connectedAddress, octraSDK, isLoading,
                    selectedMethod, lastResult, currentContractInterface,
                    isUsingCustomInterface, envVars, initPc, registered,
                    pendingConnect, pendingDisconnect, pendingExec, pendingReads >>

useMyAddress ==
    /\ IF selectedMethod # Null /\ selectedMethod.name = "getCredits"
          /\ connectedAddress # ""
       THEN /\ methodParams' = SetParam(methodParams, "address", connectedAddress)
            /\ toasts' = << "Address Set" >>
       ELSE /\ UNCHANGED methodParams
            /\ toasts' = << >>
    /\ calls' = << >>
    /\ last' = Step("useMyAddress", FALSE, NoMessage, Null)
    /\ UNCHANGED << isConnected, connectedAddress, octraSDK, isLoading,
                    selectedMethod, lastResult, currentContractInterface,
                    isUsingCustomInterface, envVars, initPc, registered,
                    pendingConnect, pendingDisconnect, pendingExec, pendingReads >>

-----------------------------------------------------------------------------
(* Executing the selected method. *)

\* what the adapter can resolve a viewCall or a callContract with
Results ==
    { [type |-> "view", result |-> "42"], [type |-> "call", txHash |-> "0xabc"] }

\* a dispatch that tests for "call" and treats every other type as a view
AdapterCall_TestsForCall(method) ==
    IF method.type # "call"
    THEN [fn |-> "viewCall",
          contractAddress |-> currentContractInterface.contract,
          methodName |-> method.name,
          params |-> CallParams(method),
          description |-> method.label]
    ELSE [fn |-> "callContract",
          contractAddress |-> currentContractInterface.contract,
          methodName |-> method.name,
          params |-> CallParams(method),
          description |-> method.label,
          gasLimit |-> 100000,
          gasPrice |-> "0.001"]

\* the argument of octraSDK.viewCall / octraSDK.callContract
AdapterCall(method) ==
    IF method.type = "view"
    THEN [fn |-> "viewCall",
          contractAddress |-> currentContractInterface.contract,
          methodName |-> method.name,
          params |-> CallParams(method),
          description |-> method.label]
    ELSE [fn |-> "callContract",
          contractAddress |-> currentContractInterface.contract,
          methodName |-> method.name,
          params |-> CallParams(method),
          description |-> method.label,
          gasLimit |-> 100000,
          gasPrice |-> "0.001"]

\* executeMethod up to its await
executeMethod ==
    /\ IF selectedMethod = Null \/ octraSDK = "null"
       THEN /\ toasts' = << >>
            /\ calls' = << >>
            /\ UNCHANGED << isLoading, pendingExec >>
       ELSE IF ~isConnected
       THEN /\ toasts' = << "Wallet Not Connected" >>
            /\ calls' = << >>
            /\ UNCHANGED << isLoading, pendingExec >>
       ELSE /\ Len(pendingExec) < MaxPendingExec
            /\ isLoading' = TRUE
            /\ pendingExec' =
                   Append(pendingExec, [method |-> selectedMethod, emptied |-> FALSE,
                                        stale |-> FALSE])
            /\ calls' = << AdapterCall(selectedMethod) >>
            /\ toasts' = << >>
    /\ last' = Step("executeMethod", FALSE, NoMessage, selectedMethod)
    /\ UNCHANGED << isConnected, connectedAddress, octraSDK, selectedMethod,
                    methodParams, lastResult, currentContractInterface,
                    isUsingCustomInterface, envVars, initPc, registered,
                    pendingConnect, pendingDisconnect, pendingReads >>

\* the awaited adapter call of the i-th pending execution resolved
executeFulfilled(i, result) ==
    /\ i \in DOMAIN pendingExec
    /\ pendingExec' = RemoveAt(pendingExec, i)
    /\ lastResult' = result
    /\ toasts' = << "Method Executed" >>
    /\ isLoading' = FALSE
    /\ calls' = << >>
    /\ last' = Step("executeFulfilled", pendingExec[i].emptied, NoMessage,
                 pendingExec[i].method)
    /\ UNCHANGED << isConnected, connectedAddress, octraSDK, selectedMethod,
                    methodParams, currentContractInterface,
                    isUsingCustomInterface, envVars, initPc, registered,
                    pendingConnect, pendingDisconnect, pendingReads >>

\* the awaited adapter call of the i-th pending execution rejected
executeRejected(i, msg) ==
    /\ i \in DOMAIN pendingExec
    /\ pendingExec' = RemoveAt(pendingExec, i)
    /\ IF IsConnectivityError(msg)
       THEN /\ isConnected' = FALSE
            /\ connectedAddress' = ""
            /\ calls' = << [fn |-> "clearConnectionState"] >>
            /\ toasts' = << "Wallet Disconnected" >>
       ELSE /\ UNCHANGED << isConnected, connectedAddress >>
            /\ calls' = << >>
            /\ toasts' = << "Execution Failed" >>
    /\ isLoading' = FALSE
    /\ last' = Step("executeRejected", pendingExec[i].emptied, msg,
                 pendingExec[i].method)
    /\ UNCHANGED << octraSDK, selectedMethod, methodParams, lastResult,
                    currentContractInterface, isUsingCustomInterface, envVars,
                    initPc, registered, pendingConnect, pendingDisconnect,
                    pendingReads >>

-----------------------------------------------------------------------------
(* Loading and resetting the contract interface. *)

FileTypes == { "none", "text/plain", "application/json" }

\* handleFileUpload up to reader.readAsText: file is "none" when no file was
\* chosen, and the MIME type of the chosen file otherwise
handleFileUpload(file) ==
    /\ IF file = "none"
       THEN /\ toasts' = << >>
            /\ UNCHANGED pendingReads
       ELSE IF file # "application/json"
       THEN /\ toasts' = << "Invalid File Type" >>
            /\ UNCHANGED pendingReads
       ELSE /\ pendingReads < MaxPendingReads
            /\ pendingReads' = pendingReads + 1
            /\ toasts' = << >>
    /\ calls' = << >>
    /\ last' = Step("handleFileUpload", FALSE, NoMessage, [file |-> file])
    /\ UNCHANGED << uiVars, envVars, initPc, registered, pendingConnect,
                    pendingDisconnect, pendingExec >>

\* a structure check that does not look at `contract`
ValidStructure_NoContractCheck(payload) ==
    payload.parses /\ payload.methodsIsArray

\* the structure check of reader.onload
ValidStructure(payload) ==
    payload.parses /\ Truthy(payload.contract) /\ payload.methodsIsArray

\* a method of the payload has the name of the selected method
SameNameAsSelected(payload) ==
    /\ selectedMethod # Null
    /\ \E i \in DOMAIN payload.methods : payload.methods[i].name = selectedMethod.name

\* reader.onload: the read delivered payload
readerOnload(payload) ==
    /\ pendingReads > 0
    /\ pendingReads' = pendingReads - 1
    /\ IF ValidStructure(payload)
       THEN /\ currentContractInterface' =
                   [contract |-> payload.contract, methods |-> payload.methods]
            /\ isUsingCustomInterface' = TRUE
            /\ ClearSelection
            \* `newInterface.contract.slice(0, 8)` throws when contract is no string
            /\ toasts' = IF payload.contract.t = "string"
                         THEN << "Contract Interface Loaded" >>
                         ELSE << "Invalid JSON File" >>
       ELSE /\ toasts' = << "Invalid JSON File" >>
            /\ UNCHANGED << currentContractInterface, isUsingCustomInterface,
                            selectedMethod, methodParams, lastResult >>
    /\ calls' = << >>
    /\ last' = Step("readerOnload", SameNameAsSelected(payload), NoMessage, payload)
    /\ UNCHANGED << isConnected, connectedAddress, octraSDK, isLoading, envVars,
                    initPc, registered, pendingConnect, pendingDisconnect,
                    pendingExec >>

\* a reset that leaves the selection and the form alone
resetToDefault_KeepsSelection ==
    /\ currentContractInterface' = contractInterface
    /\ isUsingCustomInterface' = FALSE
    /\ lastResult' = Null
    /\ toasts' = << "Reset to Default" >>
    /\ calls' = << >>
    /\ last' = Step("resetToDefault", selectedMethod # Null, NoMessage, Null)
    /\ UNCHANGED << isConnected, connectedAddress, octraSDK, isLoading,
                    selectedMethod, methodParams, envVars,
                    initPc, registered, pendingConnect, pendingDisconnect,
                    pendingExec, pendingReads >>

resetToDefault ==
    /\ currentContractInterface' = contractInterface
    /\ isUsingCustomInterface' = FALSE
    /\ ClearSelection
    /\ toasts' = << "Reset to Default" >>
    /\ calls' = << >>
    /\ last' = Step("resetToDefault", selectedMethod # Null, NoMessage, Null)
    /\ UNCHANGED << isConnected, connectedAddress, octraSDK, isLoading, envVars,
                    initPc, registered, pendingConnect, pendingDisconnect,
                    pendingExec, pendingReads >>

-----------------------------------------------------------------------------
(* The steps of the application: what the user can do with the rendered     *)
(* controls, what the provider can emit, and how pending calls settle.      *)

InitResumes ==
    \E isAvailable \in BOOLEAN, rejected \in BOOLEAN :
        (rejected => ~isAvailable) /\ initSDK(isAvailable, rejected)

ProviderConnect == mounted /\ \E address \in Addresses : handleConnect(address)

ProviderDisconnect == mounted /\ handleDisconnect

ProviderAccountsChanged ==
    mounted /\ \E accounts \in AccountLists : handleAccountsChanged(accounts)

ClickConnect == ConnectButton /\ connectWallet

ConnectSettles ==
    \/ \E address \in Addresses : connectResolved(TRUE, address)
    \/ connectResolved(FALSE, "")
    \/ \E msg \in Messages : connectRejected(msg)

ClickDisconnect == DisconnectItem /\ disconnectWallet

DisconnectSettles ==
    \/ disconnectResolved
    \/ \E msg \in Messages : disconnectRejected(msg)

ClickMethod ==
    /\ MethodsPanel
    /\ \E i \in DOMAIN currentContractInterface.methods :
           handleMethodSelect(currentContractInterface.methods[i])

EditParam ==
    /\ MethodsPanel
    /\ selectedMethod # Null
    /\ \E paramName \in ParamNames(selectedMethod), value \in EditValues :
           handleParamChange(paramName, value)

ClickUseMyAddress == UseMyAddressButton /\ useMyAddress

ClickExecute == ExecuteButton /\ executeMethod

ExecuteSettles ==
    \E i \in DOMAIN pendingExec :
        \/ \E result \in Results : executeFulfilled(i, result)
        \/ \E msg \in Messages : executeRejected(i, msg)

ChooseFile == LoadInput /\ \E file \in FileTypes : handleFileUpload(file)

FileRead == \E payload \in Payloads : readerOnload(payload)

ClickReset == ResetButton /\ resetToDefault

Next ==
    \/ InitResumes
    \/ ProviderConnect
    \/ ProviderDisconnect
    \/ ProviderAccountsChanged
    \/ ClickConnect
    \/ ConnectSettles
    \/ ClickDisconnect
    \/ DisconnectSettles
    \/ ClickMethod
    \/ EditParam
    \/ ClickUseMyAddress
    \/ ClickExecute
    \/ ExecuteSettles
    \/ ChooseFile
    \/ FileRead
    \/ ClickReset
    \/ Teardown
    \/ LeakedHandlerRuns

Spec == Init /\ [][Next]_vars

\* every pending connect() and every pending viewCall/callContract settles
SettleFairness == WF_vars(ConnectSettles) /\ WF_vars(ExecuteSettles)

SpecSettling == Spec /\ SettleFairness

(* The handlers as functions.  executeMethod and handleMethodSelect carry   *)
(* no reference to the render: here they are also invoked while the wallet  *)
(* is disconnected, where the render offers neither the method list nor the *)
(* Execute button, and executeMethod's own guards decide what happens.      *)

CallExecuteMethod == mounted /\ ~isConnected /\ executeMethod

CallHandleMethodSelect ==
    /\ mounted
    /\ ~isConnected
    /\ \E i \in DOMAIN currentContractInterface.methods :
           handleMethodSelect(currentContractInterface.methods[i])

CallUseMyAddress == mounted /\ ~UseMyAddressButton /\ useMyAddress

NextHandlers ==
    \/ Next
    \/ CallExecuteMethod
    \/ CallHandleMethodSelect
    \/ CallUseMyAddress

SpecHandlers == Init /\ [][NextHandlers]_vars

-----------------------------------------------------------------------------
(* Properties. *)

Cleared ==
    /\ selectedMethod = Null
    /\ methodParams = EmptyParams
    /\ lastResult = Null

ExecuteSettled == last.op \in { "executeFulfilled", "executeRejected" }

\* C1: every step that takes the connection state from Connected to
\* Disconnected (disconnectWallet resolving, a provider disconnect event, an
\* empty accountsChanged event, an execution failure classified as a
\* connectivity failure) ends with selectedMethod = null, methodParams = {}
\* and lastResult = null.
C1_DisconnectClearsSelection ==
    (last.wasConnected /\ ~isConnected) => Cleared

\* C2: executeMethod invoked while Disconnected makes no adapter call and
\* emits the 'Wallet Not Connected' toast, whatever selectedMethod and
\* octraSDK are.
C2_DisconnectedExecuteNotifies ==
    (last.op = "executeMethod" /\ ~last.wasConnected) =>
        /\ calls = << >>
        /\ toasts = << "Wallet Not Connected" >>

\* C3: when an empty accountsChanged event arrived while a view call was
\* pending (and nothing connected the wallet again before the call settled),
\* then after the call settles, by success or by rejection, the state is
\* Disconnected with selection, form and result cleared: the stale call's
\* result is not stored.
C3_StaleResultDiscarded ==
    (ExecuteSettled /\ last.flag /\ last.input.type = "view") =>
        (~isConnected /\ Cleared)

\* C4: at most one viewCall / callContract is pending at any time.
C4_OneExecutionPending == Len(pendingExec) <= 1

\* a call is pending, and the Execute button is rendered (and disabled)
C4_Witness ==
    /\ Len(pendingExec) = 1
    /\ MethodsPanel
    /\ selectedMethod # Null
    /\ isLoading

\* C5: right after handleMethodSelect(def), selectedMethod = def, methodParams
\* has exactly the parameter names of def as keys, each entry is that
\* parameter's example when it has one and '' otherwise, and lastResult is
\* null.
C5_SelectRebuildsForm ==
    last.op = "handleMethodSelect" =>
        /\ selectedMethod = last.input
        /\ DOMAIN methodParams =
               { last.input.params[i].name : i \in DOMAIN last.input.params }
        /\ \A i \in DOMAIN last.input.params :
               methodParams[last.input.params[i].name] =
                   IF last.input.params[i].hasExample
                   THEN last.input.params[i].example ELSE ""
        /\ lastResult = Null

\* a method with an example was selected while another one, with other
\* parameter names, was selected
C5_Witness ==
    /\ last.op = "handleMethodSelect"
    /\ last.flag
    /\ selectedMethod = Transfer

\* the payloads C6 calls invalid: no JSON, `contract` missing or empty,
\* `methods` no array
InvalidPayload(payload) ==
    \/ ~payload.parses
    \/ payload.contract.t = "undefined"
    \/ payload.contract = JStr("")
    \/ ~payload.methodsIsArray

\* a descriptor: `contract` a non-empty string and `methods` an array
ValidDescriptor(payload) ==
    /\ payload.parses
    /\ payload.contract.t = "string"
    /\ payload.contract.v # ""
    /\ payload.methodsIsArray

\* C6: a load that delivers an invalid payload, or a file that is no JSON
\* file, leaves the descriptor, the custom-interface flag, selectedMethod,
\* methodParams and lastResult as they were and emits the failure toast.
C6_InvalidLoadKeepsState ==
    [][ /\ (last'.op = "readerOnload" /\ InvalidPayload(last'.input)) =>
              /\ UNCHANGED << currentContractInterface, isUsingCustomInterface,
                              selectedMethod, methodParams, lastResult >>
              /\ toasts' = << "Invalid JSON File" >>
        /\ (last'.op = "handleFileUpload" /\ last'.input.file = "text/plain") =>
              /\ UNCHANGED << currentContractInterface, isUsingCustomInterface,
                              selectedMethod, methodParams, lastResult >>
              /\ toasts' = << "Invalid File Type" >>
      ]_vars

\* an invalid payload arrived while a custom interface was active and a
\* method was selected
C6_Witness ==
    /\ last.op = "readerOnload"
    /\ InvalidPayload(last.input)
    /\ isUsingCustomInterface
    /\ selectedMethod # Null
    /\ toasts = << "Invalid JSON File" >>

\* C7: after the load of a valid descriptor the active descriptor is the
\* loaded one, and selectedMethod = null, methodParams = {}, lastResult = null.
C7_ValidLoadReplacesAndClears ==
    (last.op = "readerOnload" /\ ValidDescriptor(last.input)) =>
        /\ currentContractInterface =
               [contract |-> last.input.contract, methods |-> last.input.methods]
        /\ isUsingCustomInterface
        /\ Cleared

\* the loaded descriptor has a method with the name of the method that was
\* selected when the load arrived
C7_Witness ==
    /\ last.op = "readerOnload"
    /\ ValidDescriptor(last.input)
    /\ last.flag

\* String.prototype.toLowerCase, on the letters the messages use
LowerChar(c) ==
    CASE c = "C" -> "c" [] c = "D" -> "d" [] c = "E" -> "e" [] c = "I" -> "i"
      [] c = "N" -> "n" [] c = "O" -> "o" [] c = "S" -> "s" [] c = "T" -> "t"
      [] c = "U" -> "u" [] c = "W" -> "w" [] c = "X" -> "x" [] OTHER -> c

ToLowerCase(msg) == [i \in DOMAIN msg |-> LowerChar(msg[i])]

\* the connectivity pattern as the specification words it: a
\* case-insensitive match of "not connected", "wallet" or "extension"
HasKeyword(msg) ==
    \E pat \in { PatNotConnected, PatWallet, PatExtension } :
        Includes(ToLowerCase(msg), pat)

\* C8: the rejection of an execution with a message that has no connectivity
\* keyword leaves the connection state, the address, selectedMethod and
\* methodParams as they were, emits exactly one toast, 'Execution Failed',
\* and makes no adapter call.
C8_OtherFailureKeepsState ==
    [][ (last'.op = "executeRejected" /\ ~HasKeyword(last'.msg)) =>
            /\ UNCHANGED << isConnected, connectedAddress, selectedMethod,
                            methodParams >>
            /\ toasts' = << "Execution Failed" >>
            /\ calls' = << >>
            /\ Len(pendingExec') < Len(pendingExec)
      ]_vars

\* "User rejected the request" arrived while connected with a method selected
C8_Witness ==
    /\ last.op = "executeRejected"
    /\ last.msg = MsgUserRejected
    /\ last.wasConnected
    /\ isConnected
    /\ selectedMethod # Null

\* C9: the rejection of an execution forces the transition to Disconnected
\* exactly when its message contains, compared case-insensitively, "not
\* connected", "wallet" or "extension".
C9_CaseInsensitiveClassification ==
    last.op = "executeRejected" =>
        ((~isConnected /\ toasts = << "Wallet Disconnected" >>) <=> HasKeyword(last.msg))

\* C10: a step takes the connection state from Disconnected to Connected only
\* if it is connect() resolving with success, a provider connect event, or
\* the restored session found by initSDK.
C10_ConnectedOnlyByConnect ==
    (~last.wasConnected /\ isConnected) =>
        \/ last.op = "connectResolved" /\ last.flag
        \/ last.op = "handleConnect"
        \/ last.op = "initSDK"

\* C10 as the code has it: an accountsChanged event with a non-empty list
\* connects as well, and nothing else does.
C10_ConnectedOnlyByConnectOrAccounts ==
    (~last.wasConnected /\ isConnected) =>
        \/ last.op = "connectResolved" /\ last.flag
        \/ last.op = "handleConnect"
        \/ last.op = "initSDK" /\ last.flag
        \/ last.op = "handleAccountsChanged" /\ last.flag

\* an accountsChanged event with accounts arrived while Disconnected
C10_Witness ==
    /\ ~last.wasConnected
    /\ isConnected
    /\ last.op = "handleAccountsChanged"

\* C11: after the teardown of the component none of its three handlers is
\* registered with the provider, whether the teardown comes before or after
\* the continuation of initSDK.
C11_NoHandlerAfterTeardown == ~mounted => ~registered

ConnectionFailed == last.op \in { "connectRejected", "disconnectRejected" }

\* C12: after a rejected connect() or disconnect() call has been handled the
\* connection state is Disconnected, with selection, form and result cleared.
C12_ConnectionErrorDisconnects ==
    ConnectionFailed => (~isConnected /\ Cleared)

\* a load that ended in the catch block of reader.onload
LoadFailed ==
    /\ last.op = "readerOnload"
    /\ (~ValidStructure(last.input) \/ last.input.contract.t # "string")

\* C13: every error of a user-triggered action (a rejected connect,
\* disconnect or execution, a failed descriptor load) produces exactly one
\* toast.
C13_OneNotificationPerError ==
    (ConnectionFailed \/ last.op = "executeRejected" \/ LoadFailed) =>
        Len(toasts) = 1

\* C14: after a successful execution lastResult carries the tag of the
\* executed method's kind: "view" with the decoded value for a view method,
\* "call" with the transaction identifier for every other method.
C14_ResultTaggedByKind ==
    last.op = "executeFulfilled" =>
        IF last.input.type = "view"
        THEN lastResult.type = "view" /\ "result" \in DOMAIN lastResult
        ELSE lastResult.type = "call" /\ "txHash" \in DOMAIN lastResult

\* the getCredits method of the scenario: a view with a parameter `address`
HasAddressView(method) ==
    /\ method # Null
    /\ method.name = "getCredits"
    /\ method.type = "view"
    /\ "address" \in ParamNames(method)

\* C15: with a connected address and getCredits selected, useMyAddress sets
\* methodParams.address to the connected address and keeps every other entry;
\* an executeMethod that follows calls viewCall with that address as the value
\* of the parameter `address`.
C15_UseMyAddressFeedsViewCall ==
    [][ /\ ( /\ last'.op = "useMyAddress"
             /\ selectedMethod # Null
             /\ selectedMethod.name = "getCredits"
             /\ connectedAddress # "" ) =>
               /\ DOMAIN methodParams' = (DOMAIN methodParams) \cup { "address" }
               /\ methodParams'["address"] = connectedAddress
               /\ \A n \in (DOMAIN methodParams) \ { "address" } :
                      methodParams'[n] = methodParams[n]
        /\ ( /\ last.op = "useMyAddress"
             /\ toasts = << "Address Set" >>
             /\ last'.op = "executeMethod"
             /\ HasAddressView(selectedMethod) ) =>
               /\ Len(calls') = 1
               /\ calls'[1].fn = "viewCall"
               /\ \A i \in DOMAIN calls'[1].params :
                      calls'[1].params[i].name = "address" =>
                          calls'[1].params[i].value = connectedAddress
      ]_vars

\* viewCall was called with the connected address as the value of `address`
C15_Witness ==
    /\ last.op = "executeMethod"
    /\ Len(calls) = 1
    /\ calls[1].fn = "viewCall"
    /\ calls[1].params[1].name = "address"
    /\ connectedAddress # ""
    /\ calls[1].params[1].value = connectedAddress

\* executeMethod went past both of its guards
PassedGuards ==
    /\ last.op = "executeMethod"
    /\ last.input # Null
    /\ octraSDK # "null"
    /\ last.wasConnected

\* C16: an executeMethod that passes its guards makes exactly one adapter
\* call: viewCall for a method of type "view", callContract with gasLimit
\* 100000 and gasPrice 0.001 for a method of any other type.
C16_OneCallByKind ==
    PassedGuards =>
        /\ Len(calls) = 1
        /\ IF last.input.type = "view"
           THEN calls[1].fn = "viewCall"
           ELSE /\ calls[1].fn = "callContract"
                /\ calls[1].gasLimit = 100000
                /\ calls[1].gasPrice = "0.001"

\* a method whose type is neither "view" nor "call" was executed
C16_Witness ==
    /\ PassedGuards
    /\ last.input.type = "query"
    /\ calls[1].fn = "callContract"

\* C17: the payload of the adapter call has one element per parameter of the
\* selected method, in declared order, each with the parameter's name, type
\* and example and the form's value for that name, "" when there is none.
C17_PayloadFollowsDeclaration ==
    PassedGuards =>
        LET method == last.input
            params == calls[1].params
        IN  /\ Len(params) = Len(method.params)
            /\ \A i \in DOMAIN method.params :
                   /\ params[i].name = method.params[i].name
                   /\ params[i].type = method.params[i].type
                   /\ params[i].hasExample = method.params[i].hasExample
                   /\ params[i].example = method.params[i].example
                   /\ params[i].value =
                          IF method.params[i].name \in DOMAIN methodParams
                          THEN methodParams[method.params[i].name]
                          ELSE ""

\* a method of two parameters was executed with its second field edited and
\* its first one emptied
C17_Witness ==
    /\ PassedGuards
    /\ Len(calls[1].params) = 2
    /\ calls[1].params[1].value = ""
    /\ calls[1].params[2].value = "7"

AdapterRequests == { "connect", "viewCall", "callContract" }

\* C18: connect, viewCall and callContract are called only by connectWallet
\* and executeMethod, which the user triggers; the handling of a failed
\* adapter call makes no such call and leaves no new call pending.
C18_NoAutomaticRetry ==
    [][ /\ { calls'[i].fn : i \in DOMAIN calls' } \cap AdapterRequests # {} =>
               last'.op \in { "connectWallet", "executeMethod" }
        /\ last'.op \in { "connectRejected", "executeRejected" } =>
               /\ pendingConnect' <= pendingConnect
               /\ Len(pendingExec') <= Len(pendingExec)
      ]_vars

\* an execution failed and the application is ready for the user to execute
\* again
C18_Witness ==
    /\ last.op = "executeRejected"
    /\ ExecuteButton
    /\ pendingExec = << >>
    /\ pendingConnect = 0

\* C19: with window.OctraSDK absent, initialisation ends without registering
\* a handler, and connectWallet calls no adapter method, changes no state and
\* emits the toast "SDK Not Available".
C19_AbsentSdkHandled ==
    [][ ~windowOctraSDK =>
            /\ octraSDK = "null" /\ octraSDK' = "null"
            /\ initPc = "done" /\ initPc' = "done"
            /\ ~registered /\ ~registered'
            /\ ~isConnected /\ ~isConnected'
            /\ last'.op = "connectWallet" =>
                   /\ calls' = << >>
                   /\ toasts' = << "SDK Not Available" >>
                   /\ UNCHANGED << uiVars, pendingConnect, pendingDisconnect,
                                   pendingExec, pendingReads >>
      ]_vars

\* Connect Wallet was clicked with window.OctraSDK absent
C19_Witness ==
    /\ ~windowOctraSDK
    /\ last.op = "connectWallet"
    /\ toasts = << "SDK Not Available" >>
    /\ ~registered

\* C20: the provider's disconnect event and the connectivity failure of a
\* pending execution, arriving when the application is already disconnected,
\* leave the connection state, the selection, the form and the result as they
\* are.
C20_DisconnectPathsIdempotent ==
    [][ ( /\ ~isConnected
          /\ \/ last'.op = "handleDisconnect"
             \/ last'.op = "executeRejected" /\ IsConnectivityError(last'.msg) ) =>
            UNCHANGED << isConnected, connectedAddress, selectedMethod,
                         methodParams, lastResult >>
      ]_vars

LoadingSettled ==
    last.op \in { "connectResolved", "connectRejected",
                  "executeFulfilled", "executeRejected" }

\* C21: the settling of a pending connect or execution clears isLoading;
\* while isLoading is true no connect and no execution is started and only
\* such a settling clears it; when every adapter call settles, a true
\* isLoading leads to a false one.
C21_LoadingClearedBySettling ==
    /\ [][ /\ last'.op \in { "connectResolved", "connectRejected",
                            "executeFulfilled", "executeRejected" } =>
                  ~isLoading'
           /\ isLoading =>
                  /\ pendingConnect' <= pendingConnect
                  /\ Len(pendingExec') <= Len(pendingExec)
                  /\ { calls'[i].fn : i \in DOMAIN calls' } \cap AdapterRequests = {}
           /\ (isLoading /\ ~isLoading' /\ mounted') =>
                  last'.op \in { "connectResolved", "connectRejected",
                                 "executeFulfilled", "executeRejected" }
         ]_vars
    /\ [](isLoading => pendingConnect + Len(pendingExec) > 0)
    /\ (isLoading ~> ~isLoading)

\* a connect() that resolved without success has been handled
C21_Witness ==
    /\ last.op = "connectResolved"
    /\ ~last.flag
    /\ ~isLoading
    /\ pendingConnect = 0

\* C22: lastResult is null after every method selection, every successful
\* descriptor load, every resetToDefault and every step that takes the
\* application from Connected to Disconnected, and a successful execution
\* replaces it by one adapter value.
C22_ResultClearedByFourOperations ==
    [][ /\ ( \/ last'.op = "handleMethodSelect"
             \/ last'.op = "readerOnload" /\ toasts' = << "Contract Interface Loaded" >>
             \/ last'.op = "resetToDefault"
             \/ isConnected /\ ~isConnected' ) =>
               lastResult' = Null
        /\ last'.op = "executeFulfilled" => lastResult' \in Results
      ]_vars

\* C23: handleParamChange(name, value) sets methodParams[name] to value,
\* whatever the value, keeps every other entry of the form and leaves
\* selectedMethod, lastResult, the connection state and the descriptor alone.
C23_ParamChangeIsPointUpdate ==
    [][ last'.op = "handleParamChange" =>
            /\ DOMAIN methodParams' = (DOMAIN methodParams) \cup { last'.input.name }
            /\ methodParams'[last'.input.name] = last'.input.value
            /\ \A n \in (DOMAIN methodParams) \ { last'.input.name } :
                   methodParams'[n] = methodParams[n]
            /\ UNCHANGED << selectedMethod, lastResult, isConnected,
                            connectedAddress, currentContractInterface,
                            isUsingCustomInterface >>
      ]_vars

\* a field of a form of two fields was emptied while a result was shown
C23_Witness ==
    /\ last.op = "handleParamChange"
    /\ last.input.value = ""
    /\ methodParams[last.input.name] = ""
    /\ Cardinality(DOMAIN methodParams) = 2
    /\ \E n \in DOMAIN methodParams : methodParams[n] # ""
    /\ lastResult # Null

\* C24: useMyAddress changes no state and emits no toast unless a method is
\* selected, its name is "getCredits" and connectedAddress is not empty.
C24_UseMyAddressOnlyForGetCredits ==
    [][ ( /\ last'.op = "useMyAddress"
          /\ ~( /\ selectedMethod # Null
                /\ selectedMethod.name = "getCredits"
                /\ connectedAddress # "" ) ) =>
            /\ UNCHANGED uiVars
            /\ toasts' = << >>
            /\ calls' = << >>
      ]_vars

\* useMyAddress was called with a wallet connected and another method
\* selected
C24_Witness ==
    /\ last.op = "useMyAddress"
    /\ selectedMethod # Null
    /\ selectedMethod.name # "getCredits"
    /\ connectedAddress # ""
    /\ toasts = << >>

\* C25: disconnectWallet changes no state before disconnect() has settled; a
\* rejection leaves the connection state, the address, the selection, the
\* form and the result as they are; a resolution leaves the application
\* disconnected with the three cleared, whatever happened meanwhile.
C25_DisconnectActsOnResolution ==
    [][ /\ last'.op \in { "disconnectWallet", "disconnectRejected" } =>
               UNCHANGED << isConnected, connectedAddress, selectedMethod,
                            methodParams, lastResult >>
        /\ last'.op = "disconnectResolved" =>
               /\ ~isConnected'
               /\ connectedAddress' = ""
               /\ selectedMethod' = Null
               /\ methodParams' = EmptyParams
               /\ lastResult' = Null
      ]_vars

\* disconnect() was rejected while connected with a method selected
C25_Witness ==
    /\ last.op = "disconnectRejected"
    /\ isConnected
    /\ selectedMethod # Null

\* C26: a load that ends with the toast "Invalid JSON File" or "Invalid File
\* Type" leaves the descriptor, the custom-interface flag, the selection, the
\* form and the result as they were.
C26_FailedLoadIsAtomic ==
    [][ ( \/ last'.op = "readerOnload" /\ toasts' = << "Invalid JSON File" >>
          \/ last'.op = "handleFileUpload" /\ toasts' = << "Invalid File Type" >> ) =>
            UNCHANGED << currentContractInterface, isUsingCustomInterface,
                         selectedMethod, methodParams, lastResult >>
      ]_vars

\* C27: the result that a settling execution stores belongs to the method
\* that is selected when it is stored.
C27_ResultOfSelectedMethod ==
    (last.op = "executeFulfilled" /\ lastResult # Null) =>
        selectedMethod = last.input

\* C28: when an execution that was started before the wallet was
\* disconnected rejects with a connectivity message after the wallet has been
\* connected again, the application stays connected with the same address
\* and clearConnectionState is not called.
C28_StaleFailureKeepsSession ==
    [][ ( /\ last'.op = "executeRejected"
          /\ IsConnectivityError(last'.msg)
          /\ isConnected
          /\ Len(pendingExec) = 1
          /\ pendingExec[1].stale ) =>
            /\ isConnected'
            /\ connectedAddress' = connectedAddress
            /\ \A i \in DOMAIN calls' : calls'[i].fn # "clearConnectionState"
      ]_vars

\* C29: the keys of methodParams are the parameter names of selectedMethod,
\* and there is none when no method is selected.
C29_FormKeysAreParamNames ==
    DOMAIN methodParams =
        IF selectedMethod = Null THEN {} ELSE ParamNames(selectedMethod)

\* C30: selectedMethod is null or one of the methods of
\* currentContractInterface.
C30_SelectionBelongsToDescriptor ==
    \/ selectedMethod = Null
    \/ \E i \in DOMAIN currentContractInterface.methods :
           currentContractInterface.methods[i] = selectedMethod

\* the descriptor was reset while one of its methods was selected
C30_Witness ==
    /\ last.op = "resetToDefault"
    /\ last.flag
    /\ selectedMethod = Null
    /\ currentContractInterface = contractInterface

\* C31: isConnected is true exactly when connectedAddress is not empty.
C31_ConnectedIffAddress == isConnected <=> (connectedAddress # "")

\* an accountsChanged event connected a disconnected application
C31_Witness ==
    /\ last.op = "handleAccountsChanged"
    /\ ~last.wasConnected
    /\ isConnected
    /\ connectedAddress \in Addresses

\* C32: an accountsChanged event with a non-empty list sets connectedAddress
\* to the first account of the list and leaves selectedMethod, methodParams,
\* lastResult, the descriptor and isLoading unchanged.
C32_AccountChangeKeepsWork ==
    [][ ( /\ last'.op = "handleAccountsChanged"
          /\ Len(last'.input.accounts) > 0 ) =>
            /\ connectedAddress' = last'.input.accounts[1]
            /\ UNCHANGED << selectedMethod, methodParams, lastResult,
                            currentContractInterface, isUsingCustomInterface,
                            isLoading >>
      ]_vars

\* a list of two accounts arrived while a method was selected and a call was
\* pending
C32_Witness ==
    /\ last.op = "handleAccountsChanged"
    /\ Len(last.input.accounts) = 2
    /\ connectedAddress = last.input.accounts[1]
    /\ selectedMethod # Null
    /\ isLoading

\* C33: isLoading is true exactly when a connect, a viewCall or a
\* callContract started by the component is pending.
C33_LoadingIffPending ==
    isLoading <=> (pendingConnect + Len(pendingExec) > 0)

\* connect() is pending while a provider event has connected the wallet
C33_Witness ==
    /\ isLoading
    /\ pendingConnect = 1
    /\ isConnected

=============================================================================
